---------------------------- MODULE Spec2Model ----------------------------
(***************************************************************************)
(* A model of cpp_comment_format: the bracket matcher (find_matching), the *)
(* line expansion of matched pairs (_comment_blocks), the block-addressable*)
(* text model (class Docstrings) and the javadoc formatting pass.          *)
(*                                                                         *)
(* Text is a sequence of one-character strings.  Offsets are 0-based, as   *)
(* in the Python source; text[p + 1] is the character at offset p.         *)
(***************************************************************************)
EXTENDS Integers, Sequences, FiniteSets, TLC

VARIABLES
    text,       \* the input buffer handed to the operation under study
    pc,         \* control state of the operation / object life cycle
    err,        \* the exception raised by the last call ("" when none)
    ign,        \* find_matching: the ignore_escaped argument
    brackets,   \* find_matching: the merged, sorted list of signed offsets
    k,          \* find_matching: number of entries of brackets consumed
    stack,      \* find_matching: stack of unmatched opening offsets
    ret,        \* find_matching: the mapping {index_opening: index_closing}
    blocks,     \* Docstrings.blocks
    comment,    \* Docstrings.comment
    index,      \* Docstrings.index (None when __init__ never set it)
    dirty,      \* some block has been assigned since construction
    out,        \* the string returned by the last str() / format() call
    gen,        \* how many times a model was built in this run (1 or 2)
    loop,       \* state of the documented enumerate/replace loop
    args        \* the arguments of the format() call

vars == <<text, pc, err, ign, brackets, k, stack, ret,
          blocks, comment, index, dirty, out, gen, loop, args>>

---------------------------------------------------------------------------
(* Bounds of the model.                                                    *)

MaxLen == 5       \* SpecMatch: longest text, in characters
MaxTok == 5       \* Spec: longest text, in tokens
MaxIndex == 2     \* Spec: largest block number passed to __setitem__
MaxLoops == 2     \* Spec: enumerate/replace loops run on one object
MaxFmtTok == 4    \* SpecFormat: longest text, in tokens
MaxReTok == 5     \* SpecReformat: longest text, in tokens

---------------------------------------------------------------------------
(* Characters and generic sequence helpers.                                *)

NL == "\n"
BS == "\\"
SP == " "

\* An optional value: absent, or present with a value.
None == << >>
Some(x) == <<x>>

Max(x, y) == IF x >= y THEN x ELSE y

Abs(i) == IF i >= 0 THEN i ELSE -i

\* Python's str * int: n copies of a space, the empty string when n <= 0.
Spaces(n) == [i \in 1..Max(n, 0) |-> SP]

\* \s of the re module, over the characters the model uses.
IsSpace(ch) == ch \in {SP, NL}

\* Python slice s[lo:hi] with 0 <= lo, over 0-based offsets.
Slice(s, lo, hi) == IF hi <= lo THEN << >> ELSE SubSeq(s, lo + 1, hi)

\* Offsets of the line breaks: [i for i, c in enumerate(text) if c == "\n"].
RECURSIVE NewlinesFrom(_, _)
NewlinesFrom(s, p) ==
    IF p >= Len(s) THEN << >>
    ELSE IF s[p + 1] = NL THEN <<p>> \o NewlinesFrom(s, p + 1)
    ELSE NewlinesFrom(s, p + 1)

Newlines(s) == NewlinesFrom(s, 0)

\* text.split("\n")
RECURSIVE SplitLines(_)
SplitLines(s) ==
    IF \A p \in 1..Len(s) : s[p] # NL THEN <<s>>
    ELSE LET p == CHOOSE q \in 1..Len(s) :
                    s[q] = NL /\ \A r \in 1..(q - 1) : s[r] # NL
         IN  <<SubSeq(s, 1, p - 1)>> \o SplitLines(SubSeq(s, p + 1, Len(s)))

\* "\n".join(parts)
RECURSIVE Join(_)
Join(parts) ==
    IF Len(parts) = 0 THEN << >>
    ELSE IF Len(parts) = 1 THEN parts[1]
    ELSE parts[1] \o <<NL>> \o Join(Tail(parts))

---------------------------------------------------------------------------
(* Patterns.  A pattern is the compiled form of the regular expressions    *)
(* the program uses: a literal, optionally followed by \s*\n.              *)

ParenOpen  == [lit |-> <<"(">>,            ws |-> FALSE]
ParenClose == [lit |-> <<")">>,            ws |-> FALSE]
DocOpen    == [lit |-> <<"/", "*", "*">>,  ws |-> TRUE]
DocClose   == [lit |-> <<"*", "/">>,       ws |-> FALSE]

\* The literal of pat occurs at offset p.
LitAt(pat, s, p) ==
    /\ p + Len(pat.lit) <= Len(s)
    /\ \A j \in 1..Len(pat.lit) : s[p + j] = pat.lit[j]

\* End (exclusive) of the longest run of \s starting at offset q.
RECURSIVE SpaceRunEnd(_, _)
SpaceRunEnd(s, q) ==
    IF q < Len(s) /\ IsSpace(s[q + 1]) THEN SpaceRunEnd(s, q + 1) ELSE q

\* End (exclusive) of the greedy match of \s*\n at offset q, or -1.
WsNlEnd(s, q) ==
    LET e  == SpaceRunEnd(s, q)
        nl == {p \in q..(e - 1) : s[p + 1] = NL}
    IN  IF nl = {} THEN -1
        ELSE (CHOOSE p \in nl : \A r \in nl : r <= p) + 1

\* The negative lookbehind (?<!\\) the program prepends when ignore_escaped.
NotEscapedAt(s, p) == p = 0 \/ s[p] # BS

\* End (exclusive) of the match of the pattern at offset p, or -1.
MatchEnd(pat, ignore_escaped, s, p) ==
    IF ~LitAt(pat, s, p) THEN -1
    ELSE IF ignore_escaped /\ ~NotEscapedAt(s, p) THEN -1
    ELSE IF pat.ws THEN WsNlEnd(s, p + Len(pat.lit))
    ELSE p + Len(pat.lit)

\* [i.span()[0] for i in re.finditer(pattern, text)]: leftmost,
\* non-overlapping matches, scanning from offset p.
RECURSIVE FindFrom(_, _, _, _)
FindFrom(pat, ignore_escaped, s, p) ==
    IF p >= Len(s) THEN << >>
    ELSE LET e == MatchEnd(pat, ignore_escaped, s, p)
         IN  IF e < 0 THEN FindFrom(pat, ignore_escaped, s, p + 1)
             ELSE <<p>> \o FindFrom(pat, ignore_escaped, s, e)

FindAll(pat, ignore_escaped, s) == FindFrom(pat, ignore_escaped, s, 0)

---------------------------------------------------------------------------
(* find_matching.                                                          *)

\* b.append(-1 * i.span()[0])
Negate(seq) == [i \in 1..Len(seq) |-> -1 * seq[i]]

\* Insert x into a list sorted by |.|, after every entry of equal key.
RECURSIVE InsertByAbs(_, _)
InsertByAbs(sorted, x) ==
    IF Len(sorted) = 0 THEN <<x>>
    ELSE IF Abs(Head(sorted)) <= Abs(x)
         THEN <<Head(sorted)>> \o InsertByAbs(Tail(sorted), x)
         ELSE <<x>> \o sorted

\* sorted(seq, key=lambda i: abs(i)): a stable sort.
RECURSIVE SortByAbs(_)
SortByAbs(seq) ==
    IF Len(seq) = 0 THEN << >>
    ELSE InsertByAbs(SortByAbs(SubSeq(seq, 1, Len(seq) - 1)), seq[Len(seq)])

\* The lists a and b of find_matching.
OpenList(o, ignore_escaped, s)  == FindAll(o, ignore_escaped, s)
CloseList(c, ignore_escaped, s) == Negate(FindAll(c, ignore_escaped, s))

\* ret[j] = v on a dict modelled as a function.
DictSet(d, j, v) ==
    [x \in (DOMAIN d) \cup {j} |-> IF x = j THEN v ELSE d[x]]

EmptyDict == << >>

\* One iteration of "for i in brackets" on the pair (stack, ret).
ScanStep(st, i) ==
    IF i >= 0
    THEN [stack |-> Append(st.stack, i), ret |-> st.ret]
    ELSE IF Len(st.stack) = 0
         THEN st
         ELSE LET j == st.stack[Len(st.stack)]
              IN  [stack |-> SubSeq(st.stack, 1, Len(st.stack) - 1),
                   ret   |-> DictSet(st.ret, j, -1 * i)]

RECURSIVE ScanAll(_, _)
ScanAll(st, evs) ==
    IF Len(evs) = 0 THEN st ELSE ScanAll(ScanStep(st, Head(evs)), Tail(evs))

\* A matcher that drops unmatched openers instead of raising.
ScanOutcome_Lenient(st) == [raised |-> FALSE, ret |-> st.ret]

\* The check after the scan: an IndexError when the stack is not empty.
ScanOutcome(st) ==
    IF Len(st.stack) > 0
    THEN [raised |-> TRUE,  ret |-> EmptyDict]
    ELSE [raised |-> FALSE, ret |-> st.ret]

\* Lines 56-76 of find_matching, on the lists a and b.
Pairing(a, b) ==
    IF Len(a) = 0 /\ Len(b) = 0
    THEN [raised |-> FALSE, ret |-> EmptyDict]
    ELSE ScanOutcome(ScanAll([stack |-> << >>, ret |-> EmptyDict],
                             SortByAbs(a \o b)))

find_matching(s, o, c, ignore_escaped) ==
    Pairing(OpenList(o, ignore_escaped, s), CloseList(c, ignore_escaped, s))

---------------------------------------------------------------------------
(* _comment_blocks.                                                        *)

\* list[i] of Python, a negative i counting from the end.
PyAt(list, i) == IF i < 0 THEN list[Len(list) + i + 1] ELSE list[i + 1]

\* sorted(list(d.keys())) of a dict with integer keys.
RECURSIVE SortedKeys(_)
SortedKeys(keys) ==
    IF keys = {} THEN << >>
    ELSE LET m == CHOOSE x \in keys : \A y \in keys : x <= y
         IN  <<m>> \o SortedKeys(keys \ {m})

\* "while x > newline[inewline]: inewline += 1": the index reached, or -1
\* when newline[inewline] is read past the end of the list (IndexError).
RECURSIVE SkipLines(_, _, _)
SkipLines(newline, inewline, x) ==
    IF inewline >= Len(newline) THEN -1
    ELSE IF x > newline[inewline + 1]
         THEN SkipLines(newline, inewline + 1, x)
         ELSE inewline

\* The loop of lines 97-105 over the remaining opening offsets.
RECURSIVE LineRanges(_, _, _, _, _)
LineRanges(keys, brk, newline, inewline, acc) ==
    IF Len(keys) = 0 THEN [raised |-> FALSE, ret |-> acc]
    ELSE LET start_line == SkipLines(newline, inewline, Head(keys))
         IN  IF start_line < 0 THEN [raised |-> TRUE, ret |-> EmptyDict]
             ELSE LET last == SkipLines(newline, start_line, brk[Head(keys)])
                  IN  IF last < 0 THEN [raised |-> TRUE, ret |-> EmptyDict]
                      ELSE LineRanges(Tail(keys), brk, newline, last + 1,
                                      DictSet(acc, start_line, last + 1))

\* _comment_blocks(text, opening, closing, escape_input): the dict
\* {line_start: line_end}; both the matcher's IndexError and the one of
\* newline[inewline] leave the function as IndexError.
comment_blocks(s, o, c) ==
    LET m == find_matching(s, o, c, TRUE)
    IN  IF m.raised THEN [raised |-> TRUE, ret |-> EmptyDict]
        ELSE LineRanges(SortedKeys(DOMAIN m.ret), m.ret, Newlines(s), 0,
                        EmptyDict)

---------------------------------------------------------------------------
(* class Docstrings.                                                       *)

\* Lines 270-275: the dict code_blocks.  doc_blocks.items() runs in
\* insertion order, which is ascending line order.
RECURSIVE CodeBlocks(_, _, _, _)
CodeBlocks(starts, doc_blocks, last, acc) ==
    IF Len(starts) = 0 THEN DictSet(acc, last, -1)
    ELSE CodeBlocks(Tail(starts), doc_blocks, doc_blocks[Head(starts)],
                    DictSet(acc, last, Head(starts) - 1))

MinKey(d) == CHOOSE x \in DOMAIN d : \A y \in DOMAIN d : x <= y

\* Lines 280-288: the segments before the first comment block.
FirstSegments(s, newline, doc_blocks, code_blocks) ==
    LET scode == MinKey(code_blocks)
        ecode == code_blocks[scode]
    IN  IF MinKey(doc_blocks) = 0 THEN << >>
        ELSE IF MinKey(code_blocks) = 0
             THEN <<Slice(s, 0, PyAt(newline, ecode))>>
             ELSE <<Slice(s, PyAt(newline, scode - 1) + 1, PyAt(newline, ecode))>>

\* Lines 297-300: the text of the comment block of lines sdoc .. edoc - 1.
DocSlice(s, newline, sdoc, edoc) ==
    IF sdoc = 0
    THEN Slice(s, 0, PyAt(newline, edoc - 1))
    ELSE Slice(s, PyAt(newline, sdoc - 1) + 1, PyAt(newline, edoc - 1))

\* Lines 304 and 308: the plain text from line scode on, to the end of the
\* buffer (ecode = -1) or up to line ecode.
CodeSlice(s, newline, scode, ecode) ==
    IF ecode = -1
    THEN Slice(s, PyAt(newline, scode - 1) + 1, Len(s))
    ELSE Slice(s, PyAt(newline, scode - 1) + 1, PyAt(newline, ecode))

\* The "while True" loop of lines 290-309, entered with the current ecode.
RECURSIVE Segments(_, _, _, _, _, _, _)
Segments(s, newline, doc_blocks, code_blocks, ecode0, bl, cm) ==
    LET sdoc  == ecode0 + 1
        edoc  == doc_blocks[sdoc]
        scode == edoc
        ecode == code_blocks[scode]
        bl1   == Append(bl, DocSlice(s, newline, sdoc, edoc))
        cm1   == Append(cm, TRUE)
        bl2   == Append(bl1, CodeSlice(s, newline, scode, ecode))
        cm2   == Append(cm1, FALSE)
    IN  IF ecode = -1 THEN [blocks |-> bl2, comment |-> cm2]
        ELSE Segments(s, newline, doc_blocks, code_blocks, ecode, bl2, cm2)

\* Lines 311-316: self.index, block number -> position in self.blocks.
RECURSIVE BuildIndex(_, _, _, _)
BuildIndex(cm, j, i, acc) ==
    IF j >= Len(cm) THEN acc
    ELSE IF cm[j + 1] THEN BuildIndex(cm, j + 1, i + 1, DictSet(acc, i, j))
    ELSE BuildIndex(cm, j + 1, i, acc)

\* Docstrings.__init__(text) with the default opening and closing.
DocstringsInit(s) ==
    LET cb == comment_blocks(s, DocOpen, DocClose)
    IN  IF cb.raised
        THEN [exc |-> "IndexError", blocks |-> << >>, comment |-> << >>,
              index |-> None]
        ELSE IF Cardinality(DOMAIN cb.ret) = 0
        THEN [exc |-> "", blocks |-> <<s>>, comment |-> <<FALSE>>,
              index |-> None]
        ELSE LET newline == Newlines(s)
                 doc     == cb.ret
                 code    == CodeBlocks(SortedKeys(DOMAIN doc), doc, 0, EmptyDict)
                 first   == FirstSegments(s, newline, doc, code)
                 seg     == Segments(s, newline, doc, code, code[MinKey(code)],
                                     first, [i \in 1..Len(first) |-> FALSE])
             IN  [exc |-> "", blocks |-> seg.blocks, comment |-> seg.comment,
                  index |-> Some(BuildIndex(seg.comment, 0, 0, EmptyDict))]

\* An assignment that takes i for a position in self.blocks.
DocSetItem_ByPosition(bl, idx, i, value) ==
    IF i >= Len(bl) THEN [exc |-> "IndexError", blocks |-> bl]
    ELSE [exc |-> "", blocks |-> [bl EXCEPT ![i + 1] = value]]

\* Docstrings.__setitem__(i, value): the exception ("" when none) and the
\* new self.blocks.  self.index does not exist after the early return of
\* __init__ (AttributeError) and has no key i >= block count (KeyError).
DocSetItem(bl, idx, i, value) ==
    IF idx = None THEN [exc |-> "AttributeError", blocks |-> bl]
    ELSE IF i \notin DOMAIN idx[1] THEN [exc |-> "KeyError", blocks |-> bl]
    ELSE [exc |-> "",
          blocks |-> [bl EXCEPT ![idx[1][i] + 1] = value]]

\* Docstrings.__getitem__(i), for i an existing block number.
DocGetItem(bl, idx, i) == bl[idx[1][i] + 1]

\* Docstrings.__str__.
DocStr(bl) == Join(bl)

\* The generator of Docstrings.__iter__ resumed at segment position pos:
\* the position of the next segment it yields, or -1 when it is exhausted.
RECURSIVE IterNext(_, _)
IterNext(cm, pos) ==
    IF pos >= Len(cm) THEN -1
    ELSE IF cm[pos + 1] THEN pos
    ELSE IterNext(cm, pos + 1)

---------------------------------------------------------------------------
(* The javadoc formatting pass.                                            *)

\* Offset of the first occurrence of sub in line, Len(line) when there is
\* none: len(line.split(sub)[0]).
RECURSIVE IndexOfSub(_, _, _)
IndexOfSub(line, sub, p) ==
    IF p + Len(sub) > Len(line) THEN Len(line)
    ELSE IF \A j \in 1..Len(sub) : line[p + j] = sub[j] THEN p
    ELSE IndexOfSub(line, sub, p + 1)

\* Length of the whitespace the group (\s*) matches at the start of line.
LeadingSpace(line) == SpaceRunEnd(line, 0)

\* line[p:] starts with the string sub.
StartsWithAt(line, p, sub) ==
    /\ p + Len(sub) <= Len(line)
    /\ \A j \in 1..Len(sub) : line[p + j] = sub[j]

\* The doxygen commands of _FormatLineDoxygen.format_line_javadoc.
DoxygenKeys ==
    << <<"a", "u", "t", "h", "o", "r">>,
       <<"b", "r", "i", "e", "f">>,
       <<"c", "o", "d", "e">>,
       <<"c", "o", "p", "y", "d", "o", "c">>,
       <<"c", "o", "p", "y", "d", "o", "c">>,
       <<"c", "o", "p", "y", "r", "i", "g", "h", "t">>,
       <<"e", "n", "d", "c", "o", "d", "e">>,
       <<"f", "i", "l", "e">>,
       <<"n", "o", "t", "e">>,
       <<"p", "a", "r", "a", "m">>,
       <<"r", "e", "t", "u", "r", "n">>,
       <<"t", "h", "r", "o", "w", "s">>,
       <<"t", "p", "a", "r", "a", "m">>,
       <<"w", "a", "r", "n", "i", "n", "g">> >>

\* _FormatLineDoxygen.__init__: the symbol to replace is the one of
\* ["\\", "@"] that is not the prefix.
OtherSymbol(prefix) == IF prefix = "@" THEN BS ELSE "@"

\* _FormatLineDoxygen.format_line_javadoc: in a line of the shape
\* \s* \* \s* <symbol><key> ..., the symbol becomes the prefix.
format_line_javadoc(line, prefix) ==
    LET a == LeadingSpace(line)
    IN  IF ~StartsWithAt(line, a, <<"*">>) THEN line
        ELSE LET b == SpaceRunEnd(line, a + 1)
             IN  IF /\ StartsWithAt(line, b, <<OtherSymbol(prefix)>>)
                    /\ \E n \in 1..Len(DoxygenKeys) :
                          StartsWithAt(line, b + 1, DoxygenKeys[n])
                 THEN [line EXCEPT ![b + 1] = prefix]
                 ELSE line

\* Lines 179-186: one line of the body of a comment block.
FormatBodyLine(line, indent) ==
    LET a == LeadingSpace(line)
    IN  IF a = Len(line)
        THEN Spaces(indent) \o <<SP, "*">>
        ELSE IF ~StartsWithAt(line, a, <<"*">>) \/ StartsWithAt(line, a, <<"*", "*">>)
        THEN Spaces(indent) \o <<SP, "*", SP>> \o Spaces(a - indent)
                 \o SubSeq(line, a + 1, Len(line))
        ELSE Spaces(indent) \o <<SP, "*">> \o SubSeq(line, a + 2, Len(line))

\* Lines 174-190: the new text of one comment block.
FormatBlock(doc, prefix) ==
    LET block  == SplitLines(doc)
        n      == Len(block)
        indent == IndexOfSub(block[1], <<"/", "*", "*">>, 0)
    IN  Join([i \in 1..n |->
                IF i = n THEN Spaces(indent) \o <<SP, "*", "/">>
                ELSE IF i = 1 THEN block[1]
                ELSE format_line_javadoc(FormatBodyLine(block[i], indent), prefix)])

---------------------------------------------------------------------------
(* The alignment pass of indented code, _format_javadoc_internal_indent.   *)

\* tabsize = None.
NoTab == 0

\* Lines 225-229: a line of the shape \s* \* \s\s+ ... whose text starts
\* at an offset that is not a multiple of tabsize is padded up to one.
AlignLine(line, tabsize) ==
    LET a == LeadingSpace(line)
    IN  IF ~StartsWithAt(line, a, <<"*">>) THEN line
        ELSE LET b  == SpaceRunEnd(line, a + 1)
                 ex == b % tabsize
             IN  IF b - (a + 1) < 2 \/ ex = 0 THEN line
                 ELSE SubSeq(line, 1, b) \o Spaces(tabsize - ex)
                          \o SubSeq(line, b + 1, Len(line))

\* Lines 222-231: the new text of one comment block.
AlignBlock(doc, tabsize) ==
    LET block == SplitLines(doc)
        n     == Len(block)
    IN  Join([i \in 1..n |->
                IF i = 1 \/ i = n THEN block[i]
                ELSE AlignLine(block[i], tabsize)])

\* Lines 215-218: the non-zero indents of the blocks from segment pos on.
RECURSIVE BlockIndents(_, _, _)
BlockIndents(bl, cm, pos) ==
    LET j == IterNext(cm, pos)
    IN  IF j < 0 THEN << >>
        ELSE LET ind == IndexOfSub(bl[j + 1], <<"/", "*", "*">>, 0)
             IN  (IF ind # 0 THEN <<ind>> ELSE << >>)
                     \o BlockIndents(bl, cm, j + 1)

RECURSIVE SumSeq(_)
SumSeq(seq) == IF seq = << >> THEN 0 ELSE seq[1] + SumSeq(Tail(seq))

\* round(total / n) of two naturals, n > 0: halves go to the even integer.
RoundDiv(total, n) ==
    LET q == total \div n
        r == total % n
    IN  IF 2 * r < n THEN q
        ELSE IF 2 * r > n THEN q + 1
        ELSE IF q % 2 = 0 THEN q ELSE q + 1

\* Lines 214-219: the tab size in use; the mean of an empty list raises
\* ZeroDivisionError.
AutoTabsize(bl, cm, tabsize) ==
    LET indent == BlockIndents(bl, cm, 0)
    IN  IF tabsize # NoTab THEN [exc |-> "", tabsize |-> tabsize]
        ELSE IF Len(indent) = 0
        THEN [exc |-> "ZeroDivisionError", tabsize |-> NoTab]
        ELSE [exc |-> "", tabsize |-> RoundDiv(SumSeq(indent), Len(indent))]

---------------------------------------------------------------------------
(* Values of the variables an operation does not use.                      *)

NoLoop ==
    [active |-> FALSE, done |-> FALSE, n |-> 0, f |-> "id", i |-> 0,
     pos |-> 0, snap |-> << >>, yielded |-> << >>, got |-> << >>]

MatchIdle ==
    /\ ign = TRUE
    /\ brackets = << >>
    /\ k = 0
    /\ stack = << >>
    /\ ret = EmptyDict

DocIdle ==
    /\ blocks = << >>
    /\ comment = << >>
    /\ index = None
    /\ dirty = FALSE
    /\ out = None
    /\ gen = 0
    /\ loop = NoLoop

NoArgs == [style |-> "", doxygen |-> "", tabsize |-> NoTab, align_codeblock |-> FALSE]

---------------------------------------------------------------------------
(* SpecMatch: one call find_matching(text, "(", ")", escape_input=True,    *)
(* ignore_escaped=ign), executed statement by statement.                   *)

MatchChars == {"(", ")", BS, "x"}

MatchTexts == UNION {[1..n -> MatchChars] : n \in 0..MaxLen}

InitMatch ==
    /\ text \in MatchTexts
    /\ ign \in BOOLEAN
    /\ pc = "fm_call"
    /\ err = ""
    /\ brackets = << >>
    /\ k = 0
    /\ stack = << >>
    /\ ret = EmptyDict
    /\ DocIdle
    /\ args = NoArgs

\* Lines 36-62: collect the occurrences, return early when there are none,
\* otherwise sort them and start the scan with an empty stack.
FMCall ==
    /\ pc = "fm_call"
    /\ LET a == OpenList(ParenOpen, ign, text)
           b == CloseList(ParenClose, ign, text)
       IN  IF Len(a) = 0 /\ Len(b) = 0
           THEN /\ pc' = "fm_returned"
                /\ brackets' = << >>
           ELSE /\ pc' = "fm_scan"
                /\ brackets' = SortByAbs(a \o b)
    /\ k' = 0
    /\ stack' = << >>
    /\ ret' = EmptyDict
    /\ UNCHANGED <<args, text, err, ign, blocks, comment, index, dirty, out, gen, loop>>

FMAdvance ==
    LET st == ScanStep([stack |-> stack, ret |-> ret], brackets[k + 1])
    IN  /\ stack' = st.stack
        /\ ret' = st.ret
        /\ k' = k + 1
        /\ UNCHANGED <<args, text, pc, err, ign, brackets,
                       blocks, comment, index, dirty, out, gen, loop>>

\* Lines 65-66: i >= 0.
FMPush ==
    /\ pc = "fm_scan" /\ k < Len(brackets)
    /\ brackets[k + 1] >= 0
    /\ FMAdvance

\* Lines 68-69: i < 0 and the stack is empty.
FMSkip ==
    /\ pc = "fm_scan" /\ k < Len(brackets)
    /\ brackets[k + 1] < 0 /\ Len(stack) = 0
    /\ FMAdvance

\* Lines 70-71: i < 0 and the stack is not empty.
FMPop ==
    /\ pc = "fm_scan" /\ k < Len(brackets)
    /\ brackets[k + 1] < 0 /\ Len(stack) > 0
    /\ FMAdvance

\* Lines 73-74.
FMRaise ==
    /\ pc = "fm_scan" /\ k = Len(brackets)
    /\ ScanOutcome([stack |-> stack, ret |-> ret]).raised
    /\ pc' = "fm_raised"
    /\ err' = "IndexError"
    /\ UNCHANGED <<args, text, ign, brackets, k, stack, ret,
                   blocks, comment, index, dirty, out, gen, loop>>

\* Line 76.
FMReturn ==
    /\ pc = "fm_scan" /\ k = Len(brackets)
    /\ ~ScanOutcome([stack |-> stack, ret |-> ret]).raised
    /\ pc' = "fm_returned"
    /\ UNCHANGED <<args, text, err, ign, brackets, k, stack, ret,
                   blocks, comment, index, dirty, out, gen, loop>>

NextMatch == FMCall \/ FMPush \/ FMSkip \/ FMPop \/ FMRaise \/ FMReturn

SpecMatch == InitMatch /\ [][NextMatch]_vars

\* What the caller of find_matching observes once the call has ended.
FMDone == pc \in {"fm_returned", "fm_raised"}

FMOutcome ==
    [raised |-> pc = "fm_raised",
     ret    |-> IF pc = "fm_raised" THEN EmptyDict ELSE ret]

---------------------------------------------------------------------------
(* Spec: the life of a Docstrings object.  It is built from a text, its    *)
(* blocks are assigned (directly, or by the documented loop                *)
(*     for i, doc in enumerate(docstrings): docstrings[i] = f(doc)         *)
(* ), and it is serialised with str(); the string of an untouched object   *)
(* may be fed to a second Docstrings.                                      *)

DocTokens ==
    { <<"/", "*", "*", NL>>, <<"*", "/">>, <<"*", "/", NL>>, <<NL>>, <<"x">> }

\* Every text made of at most n tokens.
RECURSIVE TokenTexts(_, _)
TokenTexts(tokens, n) ==
    IF n = 0 THEN { << >> }
    ELSE LET shorter == TokenTexts(tokens, n - 1)
         IN  shorter \cup {t \o tok : t \in shorter, tok \in tokens}

DocTexts == TokenTexts(DocTokens, MaxTok)

\* The values a caller assigns to a block.
Values == { <<"y">>, <<"/", "*", "*", NL, "y", NL, "*", "/">> }

\* The functions f of the loop.
Functions == {"id", "tag"}

ApplyF(f, doc) == IF f = "id" THEN doc ELSE doc \o <<"!">>

Init ==
    /\ text \in DocTexts
    /\ pc = "new"
    /\ err = ""
    /\ MatchIdle
    /\ blocks = << >>
    /\ comment = << >>
    /\ index = None
    /\ dirty = FALSE
    /\ out = None
    /\ gen = 1
    /\ loop = NoLoop
    /\ args = NoArgs

\* docstrings = Docstrings(text)
Construct ==
    /\ pc = "new"
    /\ LET d == DocstringsInit(text)
       IN  /\ pc' = IF d.exc = "" THEN "built" ELSE "failed"
           /\ err' = d.exc
           /\ blocks' = d.blocks
           /\ comment' = d.comment
           /\ index' = d.index
    /\ UNCHANGED <<args, text, ign, brackets, k, stack, ret, dirty, out, gen, loop>>

\* docstrings[i] = value
SetItem(i, value) ==
    /\ pc = "built" /\ gen = 1 /\ loop.n = 0
    /\ LET r == DocSetItem(blocks, index, i, value)
       IN  /\ err' = r.exc
           /\ blocks' = r.blocks
           /\ dirty' = (dirty \/ r.exc = "")
    /\ UNCHANGED <<args, text, pc, ign, brackets, k, stack, ret, comment, index,
                   out, gen, loop>>

\* for i, doc in enumerate(docstrings): the generator is created, no
\* statement of it has run yet.
LoopStart(f) ==
    /\ pc = "built" /\ gen = 1 /\ ~loop.active
    /\ loop.n < MaxLoops
    /\ loop.n = 0 => ~dirty
    /\ loop' = [active |-> TRUE, done |-> FALSE, n |-> loop.n + 1, f |-> f,
                i |-> 0, pos |-> 0, snap |-> blocks, yielded |-> << >>,
                got |-> << >>]
    /\ err' = ""
    /\ UNCHANGED <<args, text, pc, ign, brackets, k, stack, ret, blocks, comment,
                   index, dirty, out, gen>>

\* One iteration: the generator runs to its next yield, then the body
\* docstrings[i] = f(doc) runs.
LoopIterate ==
    /\ pc = "built" /\ loop.active
    /\ LET j == IterNext(comment, loop.pos)
       IN  /\ j >= 0
           /\ LET doc == blocks[j + 1]
                  r   == DocSetItem(blocks, index, loop.i, ApplyF(loop.f, doc))
              IN  /\ blocks' = r.blocks
                  /\ err' = r.exc
                  /\ dirty' = (dirty \/ r.exc = "")
                  /\ loop' = [loop EXCEPT
                                !.active  = (r.exc = ""),
                                !.i       = loop.i + 1,
                                !.pos     = j + 1,
                                !.yielded = Append(loop.yielded, doc),
                                !.got     = Append(loop.got,
                                               DocGetItem(blocks, index, loop.i))]
    /\ UNCHANGED <<args, text, pc, ign, brackets, k, stack, ret, comment, index,
                   out, gen>>

\* The generator is exhausted: the loop ends.
LoopEnd ==
    /\ pc = "built" /\ loop.active
    /\ IterNext(comment, loop.pos) < 0
    /\ loop' = [loop EXCEPT !.active = FALSE, !.done = TRUE,
                            !.pos = Len(comment)]
    /\ UNCHANGED <<args, text, pc, err, ign, brackets, k, stack, ret, blocks,
                   comment, index, dirty, out, gen>>

\* formatted_code = str(docstrings)
Str ==
    /\ pc = "built" /\ ~loop.active
    /\ out' = Some(DocStr(blocks))
    /\ pc' = "emitted"
    /\ err' = ""
    /\ UNCHANGED <<args, text, ign, brackets, k, stack, ret, blocks, comment,
                   index, dirty, gen, loop>>

\* Docstrings(str(docstrings)) on the string of an untouched object.
Rebuild ==
    /\ pc = "emitted" /\ gen = 1 /\ ~dirty /\ loop.n = 0
    /\ text' = out[1]
    /\ pc' = "new"
    /\ gen' = 2
    /\ err' = ""
    /\ blocks' = << >>
    /\ comment' = << >>
    /\ index' = None
    /\ out' = None
    /\ UNCHANGED <<args, ign, brackets, k, stack, ret, dirty, loop>>

Next ==
    \/ Construct
    \/ \E i \in 0..MaxIndex, value \in Values : SetItem(i, value)
    \/ \E f \in Functions : LoopStart(f)
    \/ LoopIterate
    \/ LoopEnd
    \/ Str
    \/ Rebuild

Spec == Init /\ [][Next]_vars

---------------------------------------------------------------------------
(* SpecFormat: one call format(text, style=..., doxygen=...), executed     *)
(* statement by statement.                                                 *)

FmtTokens ==
    { <<"/", "*", "*", NL>>, <<SP, "*", "/">>, <<SP, "*", "/", NL>>, <<NL>>,
      <<SP>>, <<"x">>, <<"*">>, <<BS, "n", "o", "t", "e">> }

FmtTexts == TokenTexts(FmtTokens, MaxFmtTok)

Styles == {"javadoc", "numpydoc"}

Doxygens == {"@", BS, "False"}

InitFormat ==
    /\ text \in FmtTexts
    /\ pc = "fmt_call"
    /\ err = ""
    /\ MatchIdle
    /\ DocIdle
    /\ args = NoArgs

\* format(s, style, doxygen, tabsize, align_codeblock) is entered;
\* doxygen = "False" stands for False.  Lines 379-382: only style "javadoc"
\* with a doxygen prefix is served, anything else raises ValueError.
FormatEnter(s, style, doxygen, tabsize, align_codeblock) ==
    /\ text' = s
    /\ args' = [style |-> style, doxygen |-> doxygen, tabsize |-> tabsize,
                align_codeblock |-> align_codeblock]
    /\ out' = None
    /\ loop' = NoLoop
    /\ blocks' = << >>
    /\ comment' = << >>
    /\ index' = None
    /\ IF style = "javadoc" /\ doxygen # "False"
       THEN pc' = "fmt_build" /\ err' = ""
       ELSE pc' = "fmt_failed" /\ err' = "ValueError"
    /\ UNCHANGED <<ign, brackets, k, stack, ret, dirty>>

\* ret = format(text, style=style, doxygen=doxygen, tabsize=tabsize,
\*              align_codeblock=align_codeblock)
FormatCall(style, doxygen, tabsize, align_codeblock) ==
    /\ pc = "fmt_call"
    /\ FormatEnter(text, style, doxygen, tabsize, align_codeblock)
    /\ UNCHANGED gen

\* Line 171 and line 212: docstrings = Docstrings(text), over the text
\* given to format in _format_javadoc_doxygen and over the formatted text
\* in _format_javadoc_internal_indent.
FormatBuild ==
    /\ pc \in {"fmt_build", "align_call"}
    /\ LET d == DocstringsInit(IF pc = "fmt_build" THEN text ELSE out[1])
       IN  /\ pc' = IF d.exc # "" THEN "fmt_failed"
                    ELSE IF pc = "fmt_build" THEN "fmt_loop" ELSE "align_tab"
           /\ err' = d.exc
           /\ blocks' = d.blocks
           /\ comment' = d.comment
           /\ index' = d.index
           /\ out' = IF d.exc # "" THEN None ELSE out
    /\ loop' = NoLoop
    /\ UNCHANGED <<args, text, ign, brackets, k, stack, ret, dirty, gen>>

\* Lines 173-190: one iteration of
\* for iblock, doc in enumerate(docstrings): docstrings[iblock] = ...
FormatIterate ==
    /\ pc = "fmt_loop"
    /\ LET j == IterNext(comment, loop.pos)
       IN  /\ j >= 0
           /\ LET r == DocSetItem(blocks, index, loop.i,
                                  FormatBlock(blocks[j + 1], args.doxygen))
              IN  /\ blocks' = r.blocks
                  /\ err' = r.exc
                  /\ pc' = IF r.exc = "" THEN "fmt_loop" ELSE "fmt_failed"
           /\ loop' = [loop EXCEPT !.i = loop.i + 1, !.pos = j + 1]
    /\ UNCHANGED <<args, text, ign, brackets, k, stack, ret, comment, index,
                   dirty, out, gen>>

\* Line 192: return str(docstrings), once the generator is exhausted.
\* Lines 384-387: format returns it, unless align_codeblock asks for the
\* alignment pass over it.
FormatReturn ==
    /\ pc = "fmt_loop"
    /\ IterNext(comment, loop.pos) < 0
    /\ out' = Some(DocStr(blocks))
    /\ pc' = IF args.align_codeblock THEN "align_call" ELSE "formatted"
    /\ UNCHANGED <<args, text, err, ign, brackets, k, stack, ret, blocks,
                   comment, index, dirty, gen, loop>>

NextFormat ==
    \/ \E style \in Styles, doxygen \in Doxygens :
          FormatCall(style, doxygen, NoTab, FALSE)
    \/ FormatBuild
    \/ FormatIterate
    \/ FormatReturn

SpecFormat == InitFormat /\ [][NextFormat]_vars

---------------------------------------------------------------------------
(* SpecReformat: format is called, with or without the alignment pass,     *)
(* and then called again on its own output with the same style and         *)
(* doxygen prefix, as the tests do:                                        *)
(*     ret = format(text, ...); format(ret, style=..., doxygen=...)        *)

ReformatTokens ==
    { <<"/", "*", "*", NL>>, <<SP, SP, "/", "*", "*", NL>>,
      <<SP, "*", "/", NL>>, <<NL>>,
      <<"*", SP, SP, BS, "n", "o", "t", "e", NL>> }

ReformatTexts == TokenTexts(ReformatTokens, MaxReTok)

\* The pairs tabsize, align_codeblock of the first call.
AlignChoices == { <<NoTab, FALSE>>, <<NoTab, TRUE>>, <<3, TRUE>> }

InitReformat ==
    /\ text \in ReformatTexts
    /\ pc = "fmt_call"
    /\ err = ""
    /\ MatchIdle
    /\ DocIdle
    /\ args = NoArgs

\* Lines 214-219: the tab size is settled.
AlignTabsize ==
    /\ pc = "align_tab"
    /\ LET t == AutoTabsize(blocks, comment, args.tabsize)
       IN  /\ pc' = IF t.exc = "" THEN "align_loop" ELSE "fmt_failed"
           /\ err' = t.exc
           /\ args' = [args EXCEPT !.tabsize = t.tabsize]
           /\ out' = IF t.exc = "" THEN out ELSE None
    /\ UNCHANGED <<text, ign, brackets, k, stack, ret, blocks, comment,
                   index, dirty, gen, loop>>

\* Lines 221-231: one iteration of
\* for iblock, doc in enumerate(docstrings): docstrings[iblock] = ...
AlignIterate ==
    /\ pc = "align_loop"
    /\ LET j == IterNext(comment, loop.pos)
       IN  /\ j >= 0
           /\ LET r == DocSetItem(blocks, index, loop.i,
                                  AlignBlock(blocks[j + 1], args.tabsize))
              IN  /\ blocks' = r.blocks
                  /\ err' = r.exc
                  /\ pc' = IF r.exc = "" THEN "align_loop" ELSE "fmt_failed"
           /\ loop' = [loop EXCEPT !.i = loop.i + 1, !.pos = j + 1]
    /\ UNCHANGED <<args, text, ign, brackets, k, stack, ret, comment, index,
                   dirty, out, gen>>

\* Line 233 and line 387: return str(docstrings).
AlignReturn ==
    /\ pc = "align_loop"
    /\ IterNext(comment, loop.pos) < 0
    /\ out' = Some(DocStr(blocks))
    /\ pc' = "formatted"
    /\ UNCHANGED <<args, text, err, ign, brackets, k, stack, ret, blocks,
                   comment, index, dirty, gen, loop>>

\* format(ret, style=style, doxygen=doxygen) on the output of the first
\* call.
FormatAgain ==
    /\ pc = "formatted" /\ gen = 0
    /\ FormatEnter(out[1], args.style, args.doxygen, NoTab, FALSE)
    /\ gen' = 1

NextReformat ==
    \/ \E style \in Styles, doxygen \in Doxygens, choice \in AlignChoices :
          FormatCall(style, doxygen, choice[1], choice[2])
    \/ FormatBuild
    \/ FormatIterate
    \/ FormatReturn
    \/ AlignTabsize
    \/ AlignIterate
    \/ AlignReturn
    \/ FormatAgain

SpecReformat == InitReformat /\ [][NextReformat]_vars

---------------------------------------------------------------------------
(* Reference notions for the claims about the matcher: delimiter           *)
(* occurrences as tagged positions, independent of the sign encoding.      *)

SeqToSet(seq) == {seq[i] : i \in 1..Len(seq)}

OpenSet(o, ignore_escaped, s)  == SeqToSet(FindAll(o, ignore_escaped, s))
CloseSet(c, ignore_escaped, s) == SeqToSet(FindAll(c, ignore_escaped, s))

\* Number of opening occurrences still unmatched just before offset p, when
\* every closing occurrence cancels the nearest unmatched opener, if any.
RECURSIVE RefDepth(_, _, _)
RefDepth(opens, closes, p) ==
    IF p = 0 THEN 0
    ELSE LET d == RefDepth(opens, closes, p - 1)
         IN  IF (p - 1) \in opens THEN d + 1
             ELSE IF (p - 1) \in closes THEN Max(d - 1, 0)
             ELSE d

\* A closing occurrence with no preceding unmatched opening occurrence.
IsDangling(opens, closes, q) ==
    q \in closes /\ RefDepth(opens, closes, q) = 0

\* An opening occurrence that no closing occurrence cancels.
IsUnpairedOpener(opens, closes, p) ==
    /\ p \in opens
    /\ \A q \in closes : q > p =>
          Cardinality({c \in closes : p < c /\ c <= q})
            <= Cardinality({o \in opens : p < o /\ o < q})

\* The list seq without its entry x.
RECURSIVE Without(_, _)
Without(seq, x) ==
    IF Len(seq) = 0 THEN << >>
    ELSE IF Head(seq) = x THEN Without(Tail(seq), x)
    ELSE <<Head(seq)>> \o Without(Tail(seq), x)

\* C5: dangling closers are never an error.  Whatever the text and wherever
\* the closer stands, a closing occurrence with no preceding unmatched
\* opener leaves the outcome of find_matching what it would be had that
\* occurrence not been counted: no exception because of it, same mapping.
C5_DanglingCloserIgnored ==
    FMDone =>
      LET a      == OpenList(ParenOpen, ign, text)
          cl     == FindAll(ParenClose, ign, text)
          opens  == SeqToSet(a)
          closes == SeqToSet(cl)
      IN  \A q \in closes :
            IsDangling(opens, closes, q) =>
              FMOutcome = Pairing(a, Negate(Without(cl, q)))

\* Number of escape characters immediately before offset p.
RECURSIVE EscapesBefore(_, _)
EscapesBefore(s, p) ==
    IF p > 0 /\ s[p] = BS THEN 1 + EscapesBefore(s, p - 1) ELSE 0

\* Offsets the call counted as a delimiter occurrence.
Counted == {Abs(brackets[i]) : i \in 1..Len(brackets)}

\* C7: escape exclusion.  With ignore_escaped, a delimiter preceded by
\* exactly one escape character is not counted, a delimiter preceded by
\* two escape characters is counted, and a delimiter at offset 0 is counted.
C7_EscapeExclusion ==
    (pc # "fm_call" /\ ign) =>
      \A p \in 0..(Len(text) - 1) :
        text[p + 1] \in {"(", ")"} =>
          /\ EscapesBefore(text, p) = 1 => p \notin Counted
          /\ EscapesBefore(text, p) = 2 => p \in Counted
          /\ p = 0 => p \in Counted

---------------------------------------------------------------------------
(* Reference notions for the claims about Docstrings.                      *)

\* The closing occurrence that cancels the opening occurrence p.
RefPartner(opens, closes, p) ==
    LET cancels(q) ==
            /\ q > p
            /\ Cardinality({c \in closes : p < c /\ c <= q})
                 > Cardinality({o \in opens : p < o /\ o < q})
    IN  CHOOSE q \in closes : cancels(q) /\ \A r \in closes : cancels(r) => q <= r

\* The pairs of the nearest-opener (LIFO) pairing: every opening
\* occurrence that some closing occurrence cancels, with that occurrence.
RefPairs(opens, closes) ==
    {<<p, RefPartner(opens, closes, p)>> :
        p \in {o \in opens : ~IsUnpairedOpener(opens, closes, o)}}

\* C14: LIFO pairing.  The scan takes the occurrences in ascending text
\* position, and the mapping find_matching returns holds exactly the
\* pairs of the nearest-opener pairing: each closing occurrence with the
\* most recent opening occurrence still unmatched, keyed by the opener,
\* no opener and no closer in two entries, and no other entry.
C14_LifoPairing ==
    LET opens  == OpenSet(ParenOpen, ign, text)
        closes == CloseSet(ParenClose, ign, text)
    IN  /\ pc = "fm_scan" =>
              \A i \in 1..(Len(brackets) - 1) :
                  Abs(brackets[i]) < Abs(brackets[i + 1])
        /\ pc = "fm_returned" =>
              /\ {<<p, ret[p]>> : p \in DOMAIN ret} = RefPairs(opens, closes)
              /\ DOMAIN ret \subseteq opens
              /\ \A p \in DOMAIN ret : ret[p] \in closes
              /\ \A p1, p2 \in DOMAIN ret : p1 # p2 => ret[p1] # ret[p2]

\* The comment blocks of a text: each opening delimiter /** that has a
\* partner, with the closing delimiter */ that cancels it.
CommentBlocks(s) ==
    LET opens  == OpenSet(DocOpen, TRUE, s)
        closes == CloseSet(DocClose, TRUE, s)
    IN  {<<p, RefPartner(opens, closes, p)>> :
            p \in {o \in opens : ~IsUnpairedOpener(opens, closes, o)}}

\* Number of the line holding offset p (lines are numbered from 0).
LineOf(s, p) == Cardinality({q \in 0..(p - 1) : s[q + 1] = NL})

EndsWithNL(s) == Len(s) > 0 /\ s[Len(s)] = NL

\* Any two comment blocks have at least one plain line between them.
Separated(s) ==
    \A b1, b2 \in CommentBlocks(s) :
        b1[1] < b2[1] => LineOf(s, b2[1]) > LineOf(s, b1[2]) + 1

\* Some comment block starts on the line right after the one on which the
\* block before it ends.
Adjacent(s) ==
    \E b1, b2 \in CommentBlocks(s) :
        /\ b1[1] < b2[1]
        /\ LineOf(s, b2[1]) = LineOf(s, b1[2]) + 1
        /\ \A b3 \in CommentBlocks(s) : ~(b1[1] < b3[1] /\ b3[1] < b2[1])

HasUnpairedOpener(s) ==
    LET opens  == OpenSet(DocOpen, TRUE, s)
        closes == CloseSet(DocClose, TRUE, s)
    IN  \E p \in opens : IsUnpairedOpener(opens, closes, p)

\* Every opening and every closing delimiter of the text has a partner.
AllPaired(s) ==
    LET opens  == OpenSet(DocOpen, TRUE, s)
        closes == CloseSet(DocClose, TRUE, s)
    IN  /\ \A p \in opens : ~IsUnpairedOpener(opens, closes, p)
        /\ \A q \in closes : ~IsDangling(opens, closes, q)

\* Number of block segments, and the position in blocks (from 1) of block
\* number i (from 0), read off the tags alone.
BlockCount == Cardinality({j \in 1..Len(comment) : comment[j]})

NthBlock(cm, i) ==
    CHOOSE j \in 1..Len(cm) :
        cm[j] /\ Cardinality({m \in 1..(j - 1) : cm[m]}) = i

\* The lines of a text in which each range of lines start .. end - 1 of
\* ranges is replaced by f of the text of those lines.
RECURSIVE ReplaceRanges(_, _, _, _)
ReplaceRanges(lines, ranges, ln, f) ==
    IF ln >= Len(lines) THEN << >>
    ELSE IF ln \in DOMAIN ranges
         THEN <<ApplyF(f, Join(SubSeq(lines, ln + 1, ranges[ln])))>>
              \o ReplaceRanges(lines, ranges, ranges[ln], f)
         ELSE <<lines[ln + 1]>> \o ReplaceRanges(lines, ranges, ln + 1, f)

\* The text with every block segment replaced by f of its content.
TextWithBlocksReplaced(s, f) ==
    Join(ReplaceRanges(SplitLines(s), comment_blocks(s, DocOpen, DocClose).ret,
                       0, f))

---------------------------------------------------------------------------
(* Claims about Docstrings, checked under Spec.                            *)

\* C1: round trip with separated blocks.  For a text that ends with a line
\* break, on which construction succeeds and whose comment blocks all have
\* a plain line between them, str() of the untouched object is the text.
C1_RoundTripSeparated ==
    (pc = "emitted" /\ ~dirty /\ EndsWithNL(text) /\ Separated(text))
        => out = Some(text)

\* C2: round trip with adjacent blocks.  When a block starts on the line
\* after the one on which the previous block ends, the object holds two
\* block segments with an empty plain segment between them, and str() of
\* the untouched object is the text.
C2_RoundTripAdjacent ==
    (pc = "emitted" /\ ~dirty /\ Adjacent(text))
        => /\ \E j \in 1..(Len(blocks) - 2) :
                /\ comment[j] /\ ~comment[j + 1] /\ comment[j + 2]
                /\ blocks[j + 1] = << >>
           /\ out = Some(text)

\* C3: round trip without trailing line break.  For a text that does not
\* end with a line break and whose delimiters all pair up, the object is
\* constructed, and str() of the untouched object is the text.
C3_RoundTripNoTrailingNewline ==
    (pc # "new" /\ ~EndsWithNL(text) /\ AllPaired(text))
        => /\ pc # "failed"
           /\ (pc = "emitted" /\ ~dirty) => out = Some(text)

\* C4: idempotent reserialization.  A second object built from the string
\* of the first is constructed, and its string is that same string.
C4_IdempotentReserialization ==
    (gen = 2 /\ pc # "new")
        => /\ pc # "failed"
           /\ pc = "emitted" => out = Some(text)

\* C6: an unmatched opener is fatal.  When some opening delimiter of the
\* text is left without a partner, find_matching raises instead of
\* returning a mapping, the construction raises IndexError, and no
\* segment, tag or index of a partial object exists.
C6_UnmatchedOpenerFatal ==
    (pc # "new" /\ HasUnpairedOpener(text))
        => /\ find_matching(text, DocOpen, DocClose, TRUE).raised
           /\ pc = "failed" /\ err = "IndexError"
           /\ blocks = << >> /\ comment = << >> /\ index = None
           /\ out = None

\* C6 witness: construction failed on a text with a matched pair and an
\* opener that has no partner.
C6_Witness ==
    /\ pc = "failed"
    /\ HasUnpairedOpener(text)
    /\ \E p \in OpenSet(DocOpen, TRUE, text) :
          ~IsUnpairedOpener(OpenSet(DocOpen, TRUE, text),
                            CloseSet(DocClose, TRUE, text), p)

\* C8: replacement touches only the addressed block.  A call
\* docstrings[i] = v keeps the number of segments, their tags, the index
\* and the block count; with i < block count it raises nothing, block i
\* reads v and every other segment is unchanged; with i >= block count it
\* raises and changes no segment, so str() returns what it returned before.
C8_SetItemFrame ==
    [][\A i \in 0..MaxIndex, v \in Values :
         SetItem(i, v) =>
           /\ Len(blocks') = Len(blocks)
           /\ comment' = comment
           /\ index' = index
           /\ BlockCount' = BlockCount
           /\ IF i < BlockCount
              THEN /\ err' = ""
                   /\ blocks'[NthBlock(comment, i)] = v
                   /\ \A j \in 1..Len(blocks) :
                        j # NthBlock(comment, i) => blocks'[j] = blocks[j]
              ELSE /\ err' # ""
                   /\ blocks' = blocks
                   /\ DocStr(blocks') = DocStr(blocks)]_vars

\* C8 witness: of two blocks, block 1 was replaced and block 0 was not,
\* and then an assignment to a block number >= block count was refused.
C8_Witness ==
    /\ pc = "built" /\ dirty /\ err = "KeyError"
    /\ BlockCount = 2
    /\ Cardinality(CommentBlocks(text)) = 2
    /\ blocks[NthBlock(comment, 1)] \in Values
    /\ blocks[NthBlock(comment, 0)] \notin Values

\* C9: the iterate-and-replace loop.  The loop yields the blocks once each
\* in document order, the i-th value being block i as it was before the
\* loop and equal to docstrings[i] at that moment; it ends after all N
\* blocks; and the str() that follows the first loop is the original text
\* with each block segment replaced by f of its content.
C9_LoopReplacesEveryBlock ==
    /\ loop.n > 0 =>
         /\ Len(loop.yielded) <= BlockCount
         /\ \A m \in 1..Len(loop.yielded) :
              /\ loop.yielded[m] = loop.snap[NthBlock(comment, m - 1)]
              /\ loop.got[m] = loop.yielded[m]
    /\ loop.done => Len(loop.yielded) = BlockCount
    /\ (pc = "emitted" /\ loop.done /\ loop.n = 1)
         => out = Some(TextWithBlocksReplaced(text, loop.f))

\* The lines of s from the one holding offset p up to and including the
\* one holding offset q, joined.
LinesOfPair(s, p, q) ==
    Join(SubSeq(SplitLines(s), LineOf(s, p) + 1, LineOf(s, q) + 1))

\* The pairs the matcher returns are those of the nearest-opener pairing.
MatcherPairsProper(s) ==
    LET m == find_matching(s, DocOpen, DocClose, TRUE).ret
    IN  {<<p, m[p]>> : p \in DOMAIN m} = CommentBlocks(s)

\* C13: whole-line expansion of blocks.  In a constructed, untouched
\* object over a text whose pairs the matcher returns properly, there is
\* one block segment per pair returned by the matcher, in the order of
\* the openers, and the segment of a pair is exactly the lines from the
\* one holding the first character of its opening delimiter to the one
\* holding the last character of its closing delimiter, wherever the
\* pairs lie.
C13_WholeLineExpansion ==
    (pc = "built" /\ ~dirty /\ MatcherPairsProper(text))
        => LET m    == find_matching(text, DocOpen, DocClose, TRUE).ret
               keys == SortedKeys(DOMAIN m)
           IN  /\ BlockCount = Len(keys)
               /\ \A i \in 1..Len(keys) :
                     blocks[NthBlock(comment, i - 1)]
                         = LinesOfPair(text, keys[i], m[keys[i]] + 1)

---------------------------------------------------------------------------
(* Claims about format, checked under SpecFormat.                          *)

\* The characters of s at the offsets >= p that belong to keep, in order.
RECURSIVE PickFrom(_, _, _)
PickFrom(s, keep, p) ==
    IF p >= Len(s) THEN << >>
    ELSE IF p \in keep THEN <<s[p + 1]>> \o PickFrom(s, keep, p + 1)
    ELSE PickFrom(s, keep, p + 1)

\* The text outside the comment delimiter regions: every character that
\* is not between the first character of an opening delimiter and the
\* last character of its closing delimiter.
Outside(s) ==
    LET cb == CommentBlocks(s)
    IN  PickFrom(s, {p \in 0..(Len(s) - 1) :
                        \A b \in cb : p < b[1] \/ p > b[2] + 1}, 0)

\* C10: formatting leaves non-comment text untouched.  When
\* format(text, style="javadoc", doxygen="@") succeeds, the characters of
\* the text outside its comment delimiter regions are, in order and with
\* nothing added or removed, the characters of the output outside its
\* comment delimiter regions.
C10_NonCommentTextUntouched ==
    (pc = "formatted" /\ args.style = "javadoc" /\ args.doxygen = "@"
                      /\ ~args.align_codeblock)
        => Outside(out[1]) = Outside(text)


\* C12: doxygen normalisation can be skipped.  A call of format raises
\* ValueError only when its style is not "javadoc"; in particular the call
\* format(text, style="javadoc", doxygen=False) does not.
C12_DoxygenFalseSkips ==
    (pc = "fmt_failed" /\ err = "ValueError") => args.style # "javadoc"

---------------------------------------------------------------------------
(* Claims about repeated formatting, checked under SpecReformat.           *)

\* C11: formatting is idempotent.  When format has succeeded, with or
\* without the alignment pass, the second call on its output with the same
\* style and doxygen prefix succeeds and returns that output unchanged.
C11_FormatIdempotent ==
    (gen = 1 /\ pc \in {"formatted", "fmt_failed"})
        => /\ pc = "formatted"
           /\ out = Some(text)

===========================================================================
